---- MODULE Spec2Model ----
(***************************************************************************)
(* RestClient (python/rest_client.py): a client object holding a base URL, *)
(* an authentication mode with its credentials, and one requests.Session.  *)
(* The state is the object's fields, the session's auth pair and default   *)
(* headers, the calls made on the session, and the position of a `with`    *)
(* scope around the client.                                                *)
(*                                                                         *)
(* Strings that the code only compares or formats (credentials, tokens,    *)
(* header values, bodies) are TLA+ strings; URLs, which the code strips    *)
(* character by character, are sequences of one-character strings.         *)
(***************************************************************************)
EXTENDS Integers, Sequences, FiniteSets, TLC

VARIABLES
    pc,               \* "start": not constructed; "ready"; "failed": __init__ raised
    ctor_error,       \* the exception __init__ raised, "" if none
    raw_base,         \* the base_url argument of __init__, as passed
    base_url,         \* self.base_url
    auth_mode,        \* self.auth_mode
    username,         \* self.username (Optional[str])
    password,         \* self.password (Optional[str])
    token,            \* self.token    (Optional[str])
    verify_ssl,       \* self.verify_ssl
    timeout,          \* self.timeout
    session_auth,     \* self.session.auth
    session_headers,  \* self.session.headers
    session_closes,   \* number of self.session.close() calls
    manual_closes,    \* number of close() calls made by the caller
    scope,            \* the `with` block: "none", "entered", "exited"
    scope_exc,        \* what leaves the `with` block: "", "returned", "raised"
    issued,           \* whether a request was ever issued on the session
    last_set,         \* argument of the most recent set_token call (Optional[str])
    call              \* the most recent verb call: request sent and outcome

config == <<base_url, auth_mode, username, password, verify_ssl, timeout>>

vars == <<pc, ctor_error, raw_base, base_url, auth_mode, username, password,
          token, verify_ssl, timeout, session_auth, session_headers,
          session_closes, manual_closes, scope, scope_exc, issued, last_set,
          call>>

-----------------------------------------------------------------------------
(* Bounds of the model *)

\* longest base URL / endpoint, in characters, of the URL specification
MaxUrlLen == 3
\* close() calls the caller makes by hand
MaxManualCloses == 1

(* Program constants *)

\* timeout: int = 30
DefaultTimeout == 30

-----------------------------------------------------------------------------
(* Values *)

\* class AuthMode(Enum)
BASIC == "basic"
JWT == "jwt"
NONE == "none"
AuthMode == {BASIC, JWT, NONE}

\* Optional[str]: None, or a string
None == [some |-> FALSE, val |-> ""]
Str(s) == [some |-> TRUE, val |-> s]

\* Python truthiness of an Optional[str]: None and "" are falsy
Falsy(o) == ~o.some \/ o.val = ""

\* session.auth: None, or the pair (username, password)
NoAuth == [some |-> FALSE, user |-> "", pass |-> ""]
Pair(u, p) == [some |-> TRUE, user |-> u, pass |-> p]

\* requests.Session(): the default headers of a fresh session, no Authorization
FreshHeaders == [h \in {"Accept"} |-> "*/*"]

\* dict.update({k: v})
Update(d, k, v) == [x \in DOMAIN d \cup {k} |-> IF x = k THEN v ELSE d[x]]

\* a headers argument: None, or a dict
NoHeaders == [some |-> FALSE, map |-> [h \in {} |-> ""]]
Headers(m) == [some |-> TRUE, map |-> m]

\* all character sequences over chars of length at most n
SeqsUpTo(chars, n) == UNION {[1..k -> chars] : k \in 0..n}

\* a base URL with at most one trailing slash removed
RStripOnce(s) ==
    IF Len(s) > 0 /\ s[Len(s)] = "/" THEN SubSeq(s, 1, Len(s) - 1) ELSE s

\* str.rstrip('/')
RECURSIVE RStrip(_)
RStrip(s) ==
    IF Len(s) > 0 /\ s[Len(s)] = "/" THEN RStrip(SubSeq(s, 1, Len(s) - 1)) ELSE s

\* str.lstrip('/')
RECURSIVE LStrip(_)
LStrip(s) ==
    IF Len(s) > 0 /\ s[1] = "/" THEN LStrip(SubSeq(s, 2, Len(s))) ELSE s

-----------------------------------------------------------------------------
(* The outcome of a verb call *)

NoValue == [type |-> "", py |-> ""]
NoDesc == [status |-> 0, class |-> ""]
NoMessage == [desc |-> NoDesc, detail |-> None]
NoResponse == [some |-> FALSE, status |-> 0, content |-> ""]

NoOutcome ==
    [kind |-> "none", exc |-> "", value |-> NoValue, message |-> NoMessage,
     response |-> NoResponse]
Return(v) ==
    [kind |-> "return", exc |-> "", value |-> v, message |-> NoMessage,
     response |-> NoResponse]
Raise(e, msg, resp) ==
    [kind |-> "raise", exc |-> e, value |-> NoValue, message |-> msg,
     response |-> resp]

\* what the transport answers to one request attempt: a failure, or a response
NoNet == [failed |-> FALSE, error |-> "", status |-> 0, content |-> ""]
Fails(e) == [failed |-> TRUE, error |-> e, status |-> 0, content |-> ""]
Answers(status, content) ==
    [failed |-> FALSE, error |-> "", status |-> status, content |-> content]

\* **kwargs of a verb call: an optional timeout, and options passed through to
\* the session, of which the model keeps auth
NoKwargs == [timeout |-> [some |-> FALSE, val |-> 0], auth |-> NoAuth]
KwTimeout(n) == [timeout |-> [some |-> TRUE, val |-> n], auth |-> NoAuth]
KwAuth(a) == [timeout |-> [some |-> FALSE, val |-> 0], auth |-> a]

\* A verb call: its arguments (endpoint, headers, kwargs), the request the
\* session sent (method, url, authorization, verify, timeout), the number of
\* attempts, the transport's answer, whether _handle_response ran, the outcome.
NoCall ==
    [method |-> "", endpoint |-> <<>>, headers |-> NoHeaders,
     kwargs |-> NoKwargs, url |-> <<>>, authorization |-> None,
     verify |-> TRUE, timeout |-> 0, attempts |-> 0, net |-> NoNet,
     handled |-> FALSE, outcome |-> NoOutcome]

-----------------------------------------------------------------------------
(* Construction *)

Init ==
    /\ pc = "start"
    /\ ctor_error = ""
    /\ raw_base = <<>>
    /\ base_url = <<>>
    /\ auth_mode = NONE
    /\ username = None
    /\ password = None
    /\ token = None
    /\ verify_ssl = TRUE
    /\ timeout = DefaultTimeout
    /\ session_auth = NoAuth
    /\ session_headers = FreshHeaders
    /\ session_closes = 0
    /\ manual_closes = 0
    /\ scope = "none"
    /\ scope_exc = ""
    /\ issued = FALSE
    /\ last_set = None
    /\ call = NoCall

\* a _setup_auth that tests the credentials against None only
SetupAuthErrorLax(mode, u, p, t) ==
    IF mode = BASIC /\ (~u.some \/ ~p.some) THEN "ValueError"
    ELSE IF mode = JWT /\ ~t.some THEN "ValueError"
    ELSE ""

\* _setup_auth, as the exception it raises ("" when it returns)
SetupAuthError(mode, u, p, t) ==
    IF mode = BASIC
    THEN IF Falsy(u) \/ Falsy(p) THEN "ValueError" ELSE ""
    ELSE IF mode = JWT
         THEN IF Falsy(t) THEN "ValueError" ELSE ""
         ELSE ""

\* _setup_auth, as what it leaves in session.auth
SetupAuthPair(mode, u, p, t) ==
    IF mode = BASIC /\ SetupAuthError(mode, u, p, t) = ""
    THEN Pair(u.val, p.val)
    ELSE NoAuth

\* _setup_auth, as what it leaves in session.headers
SetupAuthHeaders(mode, u, p, t) ==
    IF mode = JWT /\ SetupAuthError(mode, u, p, t) = ""
    THEN Update(FreshHeaders, "Authorization", "Bearer " \o t.val)
    ELSE FreshHeaders

\* RestClient.__init__: the fields are assigned, the session is created, and
\* _setup_auth either configures the session or raises.
Construct(B, U, P, T, V, TO) ==
    /\ pc = "start"
    /\ \E b \in B, m \in AuthMode, u \in U, p \in P, t \in T, v \in V, to \in TO :
        /\ raw_base' = b
        /\ base_url' = RStrip(b)
        /\ auth_mode' = m
        /\ username' = u
        /\ password' = p
        /\ token' = t
        /\ verify_ssl' = v
        /\ timeout' = to
        /\ ctor_error' = SetupAuthError(m, u, p, t)
        /\ session_auth' = SetupAuthPair(m, u, p, t)
        /\ session_headers' = SetupAuthHeaders(m, u, p, t)
        /\ pc' = IF SetupAuthError(m, u, p, t) = "" THEN "ready" ELSE "failed"
    /\ UNCHANGED <<session_closes, manual_closes, scope, scope_exc, issued,
                   last_set, call>>

-----------------------------------------------------------------------------
(* Token rotation *)

\* a set_token that stores the token without touching the session
SetTokenFieldOnly(T) ==
    /\ pc = "ready"
    /\ \E t \in T :
        /\ token' = Str(t)
        /\ last_set' = Str(t)
    /\ UNCHANGED <<pc, ctor_error, raw_base, config, session_auth,
                   session_headers, session_closes, manual_closes, scope,
                   scope_exc, issued, call>>

\* a set_token that also switches the client to JWT mode
SetTokenSwitchMode(T) ==
    /\ pc = "ready"
    /\ \E t \in T :
        /\ token' = Str(t)
        /\ session_headers' = Update(session_headers, "Authorization", "Bearer " \o t)
        /\ last_set' = Str(t)
    /\ auth_mode' = JWT
    /\ session_auth' = NoAuth
    /\ UNCHANGED <<pc, ctor_error, raw_base, base_url, username, password,
                   verify_ssl, timeout, session_closes, manual_closes, scope,
                   scope_exc, issued, call>>

\* a set_token that replaces the session's credential pair by the header
SetTokenDropsPair(T) ==
    /\ pc = "ready"
    /\ \E t \in T :
        /\ token' = Str(t)
        /\ session_headers' = Update(session_headers, "Authorization", "Bearer " \o t)
        /\ last_set' = Str(t)
    /\ session_auth' = NoAuth
    /\ UNCHANGED <<pc, ctor_error, raw_base, config, session_closes,
                   manual_closes, scope, scope_exc, issued, call>>

\* RestClient.set_token: no check of the argument, no check of the mode
SetToken(T) ==
    /\ pc = "ready"
    /\ \E t \in T :
        /\ token' = Str(t)
        /\ session_headers' = Update(session_headers, "Authorization", "Bearer " \o t)
        /\ last_set' = Str(t)
    /\ UNCHANGED <<pc, ctor_error, raw_base, config, session_auth,
                   session_closes, manual_closes, scope, scope_exc, issued,
                   call>>

-----------------------------------------------------------------------------
(* URL builder *)

\* RestClient._build_url
BuildUrl(endpoint) == base_url \o <<"/">> \o LStrip(endpoint)

-----------------------------------------------------------------------------
(* Response normalizer *)

\* a response: status code and body bytes
Response(status, content) == [status |-> status, content |-> content]
Attached(resp) == [some |-> TRUE, status |-> resp.status, content |-> resp.content]

\* response.json() on the bodies of the model; the JSON double quote is written '
\* ok: the body decodes; value: the decoded value, with py its str()
JsonDecode(content) ==
    CASE content = "{'a':1}" -> [ok |-> TRUE, value |-> [type |-> "object", py |-> "{'a': 1}"]]
      [] content = "{'error':'not found'}" ->
            [ok |-> TRUE, value |-> [type |-> "object", py |-> "{'error': 'not found'}"]]
      [] content = "[1]" -> [ok |-> TRUE, value |-> [type |-> "array", py |-> "[1]"]]
      [] content = "7" -> [ok |-> TRUE, value |-> [type |-> "number", py |-> "7"]]
      [] content = "'s'" -> [ok |-> TRUE, value |-> [type |-> "string", py |-> "s"]]
      [] content = "null" -> [ok |-> TRUE, value |-> [type |-> "null", py |-> "None"]]
      [] OTHER -> [ok |-> FALSE, value |-> NoValue]

\* response.text: the body decoded to a string, undecodable bytes replaced
Text(content) == IF content = "<ff>" THEN "<fffd>" ELSE content

\* the dict {"text": response.text}
TextDict(text) == [type |-> "object", py |-> "{'text': '" \o text \o "'}"]

\* the dict {}
EmptyDict == [type |-> "object", py |-> "{}"]

\* response.raise_for_status(): the HTTPError description, NoDesc when it returns
RaiseForStatus(resp) ==
    IF 400 <= resp.status /\ resp.status < 500
    THEN [status |-> resp.status, class |-> "Client Error"]
    ELSE IF 500 <= resp.status /\ resp.status < 600
         THEN [status |-> resp.status, class |-> "Server Error"]
         ELSE NoDesc

\* a _handle_response without the test of response.content
HandleResponseNoEmptyTest(resp) ==
    IF RaiseForStatus(resp) = NoDesc
    THEN IF JsonDecode(resp.content).ok
         THEN Return(JsonDecode(resp.content).value)
         ELSE Return(TextDict(Text(resp.content)))
    ELSE Raise("HTTPError",
               [desc |-> RaiseForStatus(resp),
                detail |-> IF JsonDecode(resp.content).ok
                           THEN Str(JsonDecode(resp.content).value.py)
                           ELSE None],
               Attached(resp))

\* a _handle_response whose error-body decoding is not guarded
HandleResponseUnguarded(resp) ==
    IF RaiseForStatus(resp) = NoDesc
    THEN IF resp.content # ""
         THEN IF JsonDecode(resp.content).ok
              THEN Return(JsonDecode(resp.content).value)
              ELSE Return(TextDict(Text(resp.content)))
         ELSE Return(EmptyDict)
    ELSE IF JsonDecode(resp.content).ok
         THEN Raise("HTTPError",
                    [desc |-> RaiseForStatus(resp),
                     detail |-> Str(JsonDecode(resp.content).value.py)],
                    Attached(resp))
         ELSE Raise("JSONDecodeError", NoMessage, NoResponse)

\* RestClient._handle_response
HandleResponse(resp) ==
    IF RaiseForStatus(resp) = NoDesc
    THEN IF resp.content # ""
         THEN IF JsonDecode(resp.content).ok
              THEN Return(JsonDecode(resp.content).value)
              ELSE Return(TextDict(Text(resp.content)))
         ELSE Return(EmptyDict)
    ELSE Raise("HTTPError",
               [desc |-> RaiseForStatus(resp),
                detail |-> IF JsonDecode(resp.content).ok
                           THEN Str(JsonDecode(resp.content).value.py)
                           ELSE None],
               Attached(resp))

-----------------------------------------------------------------------------
(* Verb operations *)

\* The Authorization header of the request the session sends for
\* self.session.get(url, headers=headers, **kwargs): requests merges the
\* per-call headers over the session's default headers, then applies a
\* credential pair (the per-call auth option, else session.auth) as a Basic
\* header in place of any merged one. The base64 coding of the pair is left
\* out: nothing decodes it.
Authorization(headers, kwargs) ==
    LET auth == IF kwargs.auth.some THEN kwargs.auth ELSE session_auth
    IN  IF auth.some
        THEN Str("Basic " \o auth.user \o ":" \o auth.pass)
        ELSE IF headers.some /\ "Authorization" \in DOMAIN headers.map
             THEN Str(headers.map["Authorization"])
             ELSE IF "Authorization" \in DOMAIN session_headers
                  THEN Str(session_headers["Authorization"])
                  ELSE None

\* a verb that tries a second time when the transport fails, and reports the
\* failure as an HTTPError
VerbCallRetry(method, endpoint, headers, kwargs, net) ==
    [method |-> method,
     endpoint |-> endpoint,
     headers |-> headers,
     kwargs |-> kwargs,
     url |-> BuildUrl(endpoint),
     authorization |-> Authorization(headers, kwargs),
     verify |-> verify_ssl,
     timeout |-> IF kwargs.timeout.some THEN kwargs.timeout.val ELSE timeout,
     attempts |-> IF net.failed THEN 2 ELSE 1,
     net |-> net,
     handled |-> ~net.failed,
     outcome |-> IF net.failed
                 THEN Raise("HTTPError", NoMessage, NoResponse)
                 ELSE HandleResponse(Response(net.status, net.content))]

\* The body shared by get, post, put, patch and delete: build the URL, make one
\* session call with verify and the timeout, and hand the response to
\* _handle_response; an exception of the session call leaves the verb as is.
VerbCall(method, endpoint, headers, kwargs, net) ==
    [method |-> method,
     endpoint |-> endpoint,
     headers |-> headers,
     kwargs |-> kwargs,
     url |-> BuildUrl(endpoint),
     authorization |-> Authorization(headers, kwargs),
     verify |-> verify_ssl,
     timeout |-> IF kwargs.timeout.some THEN kwargs.timeout.val ELSE timeout,
     attempts |-> 1,
     net |-> net,
     handled |-> ~net.failed,
     outcome |-> IF net.failed
                 THEN Raise(net.error, NoMessage, NoResponse)
                 ELSE HandleResponse(Response(net.status, net.content))]

Verb(method, E, H, K, N) ==
    /\ pc = "ready"
    /\ \E endpoint \in E, headers \in H, kwargs \in K, net \in N :
        call' = VerbCall(method, endpoint, headers, kwargs, net)
    /\ issued' = TRUE
    /\ UNCHANGED <<pc, ctor_error, raw_base, config, token, session_auth,
                   session_headers, session_closes, manual_closes, scope,
                   scope_exc, last_set>>

\* RestClient.get
Get(E, H, K, N) == Verb("GET", E, H, K, N)
\* RestClient.post
Post(E, H, K, N) == Verb("POST", E, H, K, N)
\* RestClient.put
Put(E, H, K, N) == Verb("PUT", E, H, K, N)
\* RestClient.patch
Patch(E, H, K, N) == Verb("PATCH", E, H, K, N)
\* RestClient.delete
Delete(E, H, K, N) == Verb("DELETE", E, H, K, N)

-----------------------------------------------------------------------------
(* Session lifecycle *)

\* RestClient.close, called by the caller
Close ==
    /\ pc = "ready"
    /\ manual_closes < MaxManualCloses
    /\ manual_closes' = manual_closes + 1
    /\ session_closes' = session_closes + 1
    /\ UNCHANGED <<pc, ctor_error, raw_base, config, token, session_auth,
                   session_headers, scope, scope_exc, issued, last_set, call>>

\* RestClient.__enter__: returns self
Enter ==
    /\ pc = "ready"
    /\ scope = "none"
    /\ scope' = "entered"
    /\ UNCHANGED <<pc, ctor_error, raw_base, config, token, session_auth,
                   session_headers, session_closes, manual_closes, scope_exc,
                   issued, last_set, call>>

\* an __exit__ that closes the session only when the block returned
ExitCloseOnReturn(raised) ==
    /\ pc = "ready"
    /\ scope = "entered"
    /\ scope' = "exited"
    /\ scope_exc' = IF raised THEN "raised" ELSE "returned"
    /\ session_closes' = IF raised THEN session_closes ELSE session_closes + 1
    /\ UNCHANGED <<pc, ctor_error, raw_base, config, token, session_auth,
                   session_headers, manual_closes, issued, last_set, call>>

\* RestClient.__exit__: closes; its None result lets an exception of the block
\* propagate. raised: the block left with an exception.
Exit(raised) ==
    /\ pc = "ready"
    /\ scope = "entered"
    /\ scope' = "exited"
    /\ scope_exc' = IF raised THEN "raised" ELSE "returned"
    /\ session_closes' = session_closes + 1
    /\ UNCHANGED <<pc, ctor_error, raw_base, config, token, session_auth,
                   session_headers, manual_closes, issued, last_set, call>>

-----------------------------------------------------------------------------
(* Inputs *)

\* credentials: missing, empty, given
Usernames == {None, Str(""), Str("user")}
Passwords == {None, Str(""), Str("pass")}
Tokens == {None, Str(""), Str("old")}
\* the credentials that are missing or given, the empty ones left out
GivenOrNot(S) == {o \in S : ~o.some \/ o.val # ""}
\* arguments of set_token
NewTokens == {"", "new", "newer"}

\* per-call headers: none, or an extra header with an Authorization override
CallHeaders ==
    {NoHeaders,
     Headers([h \in {"X-Custom-Header", "Authorization"} |->
                 IF h = "Authorization" THEN "Custom" ELSE "valeur"])}
\* per-call options: none, a timeout, a credential pair
CallKwargs == {NoKwargs, KwTimeout(5), KwAuth(Pair("k", "s"))}

Statuses == {200, 204, 302, 399, 400, 404, 499, 500, 599}
Bodies ==
    {"", "{'a':1}", "{'error':'not found'}", "[1]", "7", "'s'", "null",
     "hello", "<ff>"}
TransportErrors == {"ConnectionError", "Timeout", "SSLError"}
AllNets ==
    {Fails(e) : e \in TransportErrors}
        \cup {Answers(st, b) : st \in Statuses, b \in Bodies}
TwoNets == {Fails("ConnectionError"), Answers(200, "{'a':1}")}

OneBase == {<<"h", "/">>}
OneEndpoint == {<<"/", "p">>}
AllBases == SeqsUpTo({"h", "/"}, MaxUrlLen)
AllEndpoints == SeqsUpTo({"p", "/"}, MaxUrlLen)

-----------------------------------------------------------------------------
(* Specifications *)

\* The client's life: construction in each mode, token rotation, the five
\* verbs with per-call headers and options, close and the `with` scope.
Next ==
    \/ Construct(OneBase, GivenOrNot(Usernames), GivenOrNot(Passwords),
                 GivenOrNot(Tokens), BOOLEAN, {DefaultTimeout})
    \/ SetToken(NewTokens)
    \/ Get(OneEndpoint, CallHeaders, CallKwargs, TwoNets)
    \/ Post(OneEndpoint, CallHeaders, CallKwargs, TwoNets)
    \/ Put(OneEndpoint, CallHeaders, CallKwargs, TwoNets)
    \/ Patch(OneEndpoint, CallHeaders, CallKwargs, TwoNets)
    \/ Delete(OneEndpoint, CallHeaders, CallKwargs, TwoNets)
    \/ Close
    \/ Enter
    \/ Exit(FALSE)
    \/ Exit(TRUE)

Spec == Init /\ [][Next]_vars

\* Construction with every combination of missing, empty and given
\* credentials, followed by token rotation and plain verb calls.
NextConfig ==
    \/ Construct(OneBase, Usernames, Passwords, Tokens, {TRUE}, {DefaultTimeout})
    \/ SetToken(NewTokens)
    \/ Get(OneEndpoint, {NoHeaders}, {NoKwargs}, TwoNets)
    \/ Post(OneEndpoint, {NoHeaders}, {NoKwargs}, TwoNets)
    \/ Put(OneEndpoint, {NoHeaders}, {NoKwargs}, TwoNets)
    \/ Patch(OneEndpoint, {NoHeaders}, {NoKwargs}, TwoNets)
    \/ Delete(OneEndpoint, {NoHeaders}, {NoKwargs}, TwoNets)

SpecConfig == Init /\ [][NextConfig]_vars

\* The URL builder on every base URL and endpoint of the bounds.
NextUrl ==
    \/ Construct(AllBases, {None}, {None}, {None}, {TRUE}, {DefaultTimeout})
    \/ Get(AllEndpoints, {NoHeaders}, {NoKwargs}, {Answers(200, "")})
    \/ Post(AllEndpoints, {NoHeaders}, {NoKwargs}, {Answers(200, "")})
    \/ Put(AllEndpoints, {NoHeaders}, {NoKwargs}, {Answers(200, "")})
    \/ Patch(AllEndpoints, {NoHeaders}, {NoKwargs}, {Answers(200, "")})
    \/ Delete(AllEndpoints, {NoHeaders}, {NoKwargs}, {Answers(200, "")})

SpecUrl == Init /\ [][NextUrl]_vars

\* The verbs on every answer of the transport: each failure, each status with
\* each body.
NextResp ==
    \/ Construct(OneBase, {None}, {None}, {None}, {TRUE}, {DefaultTimeout})
    \/ Get(OneEndpoint, {NoHeaders}, {NoKwargs}, AllNets)
    \/ Post(OneEndpoint, {NoHeaders}, {NoKwargs}, AllNets)
    \/ Put(OneEndpoint, {NoHeaders}, {NoKwargs}, AllNets)
    \/ Patch(OneEndpoint, {NoHeaders}, {NoKwargs}, AllNets)
    \/ Delete(OneEndpoint, {NoHeaders}, {NoKwargs}, AllNets)

SpecResp == Init /\ [][NextResp]_vars

-----------------------------------------------------------------------------
(* Properties *)

\* the credentials the mode requires are missing or empty
MissingCredentials ==
    \/ auth_mode = BASIC /\ (Falsy(username) \/ Falsy(password))
    \/ auth_mode = JWT /\ Falsy(token)

\* the session has a default Authorization header
HasAuthorization == "Authorization" \in DOMAIN session_headers

\* a verb call has been made
Called == call.method # ""

\* the status of the answer is 4xx or 5xx
ErrorStatus(net) == ~net.failed /\ net.status \in 400..599

\* the status of the answer is below 400 or above 599
SuccessStatus(net) == ~net.failed /\ net.status \notin 400..599

\* n slashes
Slashes(n) == [i \in 1..n |-> "/"]

\* s without its first n characters
Drop(s, n) == SubSeq(s, n + 1, Len(s))

\* C1: construction fails, with ValueError and before any request, exactly
\* when the mode's credentials are missing or empty: a failed construction had
\* them missing and issued nothing, a successful one (seen before any
\* set_token changes the token) had them all; so NONE mode never fails.
C1_ConfigurationError ==
    /\ pc = "failed" =>
        /\ MissingCredentials
        /\ ctor_error = "ValueError"
        /\ ~issued
        /\ call = NoCall
    /\ pc = "ready" =>
        /\ ctor_error = ""
        /\ (~last_set.some => ~MissingCredentials)

\* C1: a BASIC construction with an empty username has failed
C1_Witness ==
    /\ pc = "failed"
    /\ auth_mode = BASIC
    /\ username = Str("")
    /\ password = Str("pass")

\* C2: a verb whose answer has a status outside 4xx/5xx returns: the decoded
\* value when the non-empty body decodes, {"text": body as text} when it does
\* not, {} when the body is empty.
C2_SuccessNeverRaises ==
    Called /\ SuccessStatus(call.net) =>
        /\ call.outcome.kind = "return"
        /\ call.net.content = "" => call.outcome.value = EmptyDict
        /\ call.net.content # "" /\ JsonDecode(call.net.content).ok =>
            call.outcome.value = JsonDecode(call.net.content).value
        /\ call.net.content # "" /\ ~JsonDecode(call.net.content).ok =>
            call.outcome.value = TextDict(Text(call.net.content))

\* C2: a verb answered 200 with an empty body has returned {}
C2_Witness ==
    /\ call.method = "POST"
    /\ call.net = Answers(200, "")
    /\ call.outcome = Return(EmptyDict)

\* C3: a verb whose answer has a 4xx/5xx status raises HTTPError carrying the
\* response and the status description; the decoded body is in the message
\* exactly when the body decodes.
C3_ErrorAlwaysHTTPError ==
    Called /\ ErrorStatus(call.net) =>
        /\ call.outcome.kind = "raise"
        /\ call.outcome.exc = "HTTPError"
        /\ call.outcome.response = Attached(Response(call.net.status, call.net.content))
        /\ call.outcome.message.desc.status = call.net.status
        /\ call.outcome.message.desc.class =
            (IF call.net.status < 500 THEN "Client Error" ELSE "Server Error")
        /\ call.outcome.message.detail.some <=> JsonDecode(call.net.content).ok
        /\ JsonDecode(call.net.content).ok =>
            call.outcome.message.detail = Str(JsonDecode(call.net.content).value.py)

\* C3: a verb answered 404 with a body that does not decode has raised
\* HTTPError with the description alone
C3_Witness ==
    /\ call.net = Answers(404, "hello")
    /\ call.outcome.exc = "HTTPError"
    /\ ~call.outcome.message.detail.some

\* the session's default Authorization header and the stored token follow the
\* most recent set_token (the construction token in JWT mode)
TokenReflected ==
    pc = "ready" /\ (last_set.some \/ auth_mode = JWT) =>
        /\ HasAuthorization
        /\ token.some
        /\ session_headers["Authorization"] = "Bearer " \o token.val
        /\ last_set.some => token = last_set

\* the step is a verb call with neither an Authorization header nor an auth
\* option of its own, on a session that has a default Authorization header
PlainCallStep ==
    /\ call' # call
    /\ ~(call'.headers.some /\ "Authorization" \in DOMAIN call'.headers.map)
    /\ ~call'.kwargs.auth.some
    /\ HasAuthorization

\* C4 as claimed: the session header and the token follow the most recent
\* set_token, and every verb call without a per-call override carries the
\* session's Authorization header, in every mode.
C4_CarriesBearer ==
    /\ []TokenReflected
    /\ [][PlainCallStep =>
            call'.authorization = Str(session_headers["Authorization"])]_vars

\* C4 amended: the session header and the token follow the most recent
\* set_token; a verb call without a per-call override carries that header when
\* the session holds no credential pair, and the pair's Basic header when it
\* does (BASIC mode).
C4_CarriesBearerUnlessBasic ==
    /\ []TokenReflected
    /\ [][PlainCallStep =>
            call'.authorization =
                (IF session_auth.some
                 THEN Str("Basic " \o session_auth.user \o ":" \o session_auth.pass)
                 ELSE Str(session_headers["Authorization"]))]_vars

\* C4: a JWT client constructed with "old" has sent "Bearer new" after
\* set_token("new")
C4_Witness ==
    /\ auth_mode = JWT
    /\ last_set = Str("new")
    /\ ~call.headers.some
    /\ call.authorization = Str("Bearer new")

\* C5: leaving the `with` block, by return or by exception, closes the session
\* exactly once: outside an exited scope every close is the caller's, after
\* the exit there is one more.
C5_ReleasedOnce ==
    /\ scope = "exited" =>
        /\ scope_exc \in {"returned", "raised"}
        /\ session_closes = manual_closes + 1
    /\ scope # "exited" => session_closes = manual_closes

\* C5: the block raised and the session has been closed once
C5_Witness ==
    /\ scope = "exited"
    /\ scope_exc = "raised"
    /\ call.outcome.kind = "raise"
    /\ session_closes = 1

\* C6 as claimed: at most one of the credential pair and the Bearer header is
\* on the session, a BASIC client has non-empty username and password, a JWT
\* client has a non-empty token.
C6_ExactlyOneActive ==
    pc = "ready" =>
        /\ ~(session_auth.some /\ HasAuthorization)
        /\ auth_mode = BASIC => ~Falsy(username) /\ ~Falsy(password)
        /\ auth_mode = JWT => ~Falsy(token)

\* C6 amended: the credential pair is on the session exactly in BASIC mode and
\* is the non-empty username and password; the Bearer header is on the session
\* exactly in JWT mode or after a set_token, in any mode, so both are there
\* after a set_token in BASIC mode; a JWT client's token is empty only when the
\* most recent set_token passed the empty string, which set_token accepts.
C6_ActiveAuth ==
    pc = "ready" =>
        /\ session_auth.some <=> auth_mode = BASIC
        /\ auth_mode = BASIC =>
            /\ ~Falsy(username)
            /\ ~Falsy(password)
            /\ session_auth = Pair(username.val, password.val)
        /\ HasAuthorization <=> (auth_mode = JWT \/ last_set.some)
        /\ auth_mode = JWT /\ Falsy(token) => last_set = Str("")

\* C6: a BASIC client after set_token holds both the pair and the header
C6_Witness ==
    /\ auth_mode = BASIC
    /\ session_auth = Pair("user", "pass")
    /\ HasAuthorization
    /\ last_set = Str("new")

\* C7: the URL of a verb call is the base without its trailing slashes, one
\* slash, and the endpoint without its leading slashes; the stored base is the
\* stripped base; the spec's three examples give h/p.
C7_OneSeparatingSlash ==
    Called =>
        /\ \E i \in 0..Len(raw_base), j \in 0..Len(call.endpoint) :
            /\ raw_base = SubSeq(raw_base, 1, i) \o Slashes(Len(raw_base) - i)
            /\ i > 0 => raw_base[i] # "/"
            /\ call.endpoint = Slashes(j) \o Drop(call.endpoint, j)
            /\ j < Len(call.endpoint) => call.endpoint[j + 1] # "/"
            /\ base_url = SubSeq(raw_base, 1, i)
            /\ call.url = SubSeq(raw_base, 1, i) \o <<"/">> \o Drop(call.endpoint, j)
        /\ raw_base \in {<<"h">>, <<"h", "/">>}
                /\ call.endpoint \in {<<"p">>, <<"/", "p">>} =>
            call.url = <<"h", "/", "p">>

\* C7: base h// and endpoint //p have built h/p
C7_Witness ==
    /\ raw_base = <<"h", "/", "/">>
    /\ call.endpoint = <<"/", "/", "p">>
    /\ call.url = <<"h", "/", "p">>

\* C8: whatever a verb returns is a mapping with string keys (a JSON object)
C8_ResultIsMapping ==
    Called /\ call.outcome.kind = "return" => call.outcome.value.type = "object"

\* C9: a verb call makes one attempt on the session; a transport failure
\* leaves the verb as the same exception, without _handle_response running.
C9_SingleAttempt ==
    Called =>
        /\ call.attempts = 1
        /\ call.net.failed =>
            /\ call.outcome = Raise(call.net.error, NoMessage, NoResponse)
            /\ ~call.handled
        /\ ~call.net.failed => call.handled

\* C9: a verb whose attempt timed out has raised Timeout
C9_Witness ==
    /\ call.method = "DELETE"
    /\ call.net = Fails("Timeout")
    /\ call.outcome.exc = "Timeout"
    /\ call.attempts = 1

\* C10: once the client is constructed no step changes its configuration or
\* the session's credential pair; a step that makes a call, closes the session
\* or moves the scope leaves the token and the session's headers alone; a
\* step that changes the session's headers changes the Authorization header
\* only.
C10_ConfigurationFrozen ==
    [][pc = "ready" =>
        /\ pc' = pc
        /\ config' = config
        /\ raw_base' = raw_base
        /\ session_auth' = session_auth
        /\ (call' # call \/ issued' # issued \/ session_closes' # session_closes
                \/ scope' # scope) =>
            /\ token' = token
            /\ session_headers' = session_headers
        /\ session_headers' # session_headers =>
            /\ DOMAIN session_headers' = DOMAIN session_headers \cup {"Authorization"}
            /\ \A h \in DOMAIN session_headers \ {"Authorization"} :
                session_headers'[h] = session_headers[h]
            /\ token'.some
            /\ session_headers'["Authorization"] = "Bearer " \o token'.val]_vars

\* C10: a BASIC client after set_token, a call with its own timeout and a close
C10_Witness ==
    /\ auth_mode = BASIC
    /\ last_set.some
    /\ call.timeout = 5
    /\ timeout = DefaultTimeout
    /\ session_closes = 1
    /\ session_auth = Pair("user", "pass")

====
